---- MODULE Spec2Model ----
(***************************************************************************)
(* Query translation and result streaming of the document-database proxy:  *)
(*   - queryIterator (Next, Close, close, newQueryIterator), the mutex     *)
(*     guarded iterator over a backend cursor;                             *)
(*   - QueryDocuments / buildIterator and Explain, the query executor;     *)
(*   - prepareWhereClause, the filter compiler (pushdown).                 *)
(* Spec is the life of one iterator, from QueryDocuments to its last call, *)
(* each call one step; SpecLive is Spec with a caller that keeps calling   *)
(* Next.  SpecConc is the same iterator called by several actors at once,  *)
(* statement by statement, until the garbage collector takes it.           *)
(* SpecFilter compiles one filter document, runs the compiled predicate    *)
(* over a collection and re-applies the original filter in memory.         *)
(* SpecQuery hands one set of query parameters to QueryDocuments and to    *)
(* Explain and keeps the text of the queries they build.                   *)
(***************************************************************************)
EXTENDS Integers, Sequences, FiniteSets, TLC

\* ------------------------------------------------------------------ bounds

\* Records the backend cursor delivers at most before it ends.
MaxRecords == 3
\* Schema versions of the collection: 1..MaxSchema.
MaxSchema == 2
\* Top-level entries of a filter document.
MaxFilterLen == 2
\* Characters of a query comment.
MaxCommentLen == 4
\* Actors that call Next() and Close() on one iterator concurrently.
MaxActors == 2

\* ------------------------------------------------------------------- state

VARIABLES
    qres,        \* what QueryDocuments returned: "none" (not called yet), "iter", "error"
    lookup,      \* outcome of getTableName in QueryDocuments: "none", "ok", "notexist", "other"
    executed,    \* number of tx.Query calls made
    iter,        \* queryIterator.iter: NIL or CURSOR (the driver.Iterator it holds)
    schema,      \* queryIterator.schema: the cached schema version, NilSchema for nil
    registered,  \* the iterator is in queryIteratorProfiles
    finalizer,   \* runtime.SetFinalizer is armed for the iterator
    cur,         \* driver.Iterator: "none", "open", "eof", "invalid_argument", "other", "closed"
    pos,         \* driver.Iterator: records delivered so far
    closeCount,  \* driver.Iterator: Close() invocations
    nilCalls,    \* method calls made on a nil driver.Iterator (each is a panic)
    authSchema,  \* the collection's authoritative schema version in the backend
    nRefresh,    \* RefreshCollectionSchema invocations
    ctxErr,      \* ctx.Err(): "nil", "canceled", "deadline"
    tick,        \* flips at every Next()/Close() call of the caller
    last,        \* the last call of the caller, what it returned and what it met
    hist,        \* what has happened to the iterator so far
    filter,      \* the filter document handed to prepareWhereClause
    compiled,    \* what prepareWhereClause returned, NotCompiled before
    rows,        \* documents the backend returned for the compiled query
    refiltered,  \* rows that pass the original filter in memory
    fpc,         \* how far the query is: "start", "failed", "queried", "filtered"
    m,           \* queryIterator.m: the actor holding the mutex, 0 when it is free
    pc,          \* where each actor is in its call of Next() or Close()
    call,        \* each actor's running call: the method, what it returns, what it saw
    lateOp,      \* a method of the cursor was called after the cursor's Close()
    returned,    \* the documents successful Next() calls returned, in order of return
    gc,          \* the iterator's memory: "live", "collected", "panic" (the finalizer ran)
    qp,          \* QueryParams: [Comment, Explain]
    query,       \* the text of the query buildIterator built, <<>> before
    ex           \* what Explain did: the existence check and the table lookup, its
                 \* result, its query and the number of its tx.Query calls

iterVars == <<qres, lookup, executed, iter, schema, registered, finalizer, cur, pos,
              closeCount, nilCalls, authSchema, nRefresh, ctxErr, tick, last, hist>>
filterVars == <<filter, compiled, rows, refiltered, fpc>>
concVars == <<m, pc, call, lateOp, returned, gc>>
queryVars == <<qp, query, ex>>
vars == <<iterVars, filterVars, concVars, queryVars>>

NIL == "nil"
CURSOR == "cursor"
NilSchema == 0
ErrIteratorDone == "done"

\* ------------------------------------------------------- document values

\* types.Document is an ordered list of <<key, value>> pairs.  A key is the
\* sequence of its characters (an operator's name counting as one), so that it
\* can be split at the dots: "v.w" is <<"v", ".", "w">>, "$eq" is <<"$", "eq">>.
\* A value is [t |-> its type tag, v |-> its payload].
OpEq == <<"$", "eq">>
OpNe == <<"$", "ne">>
OpGt == <<"$", "gt">>
Double(n) == [t |-> "double", v |-> n]
String(s) == [t |-> "string", v |-> s]
ObjectID(s) == [t |-> "objectId", v |-> s]
Bool(b) == [t |-> "bool", v |-> b]
Time(n) == [t |-> "date", v |-> n]
Int32(n) == [t |-> "int", v |-> n]
Int64(n) == [t |-> "long", v |-> n]
Null == [t |-> "null", v |-> 0]
Binary == [t |-> "binData", v |-> "QUI="]
Regex == [t |-> "regex", v |-> "^4"]
Timestamp == [t |-> "timestamp", v |-> 42]
Array(elems) == [t |-> "array", v |-> elems]
Document(pairs) == [t |-> "object", v |-> pairs]

\* The value kinds of the type switches of prepareWhereClause.
ScalarTypes == {"double", "string", "objectId", "bool", "date", "int", "long"}
UnsupportedTypes == {"object", "array", "binData", "null", "regex", "timestamp"}

\* strings.HasPrefix(rootKey, "$")
HasPrefix(key, c) == Len(key) > 0 /\ key[1] = c

\* strings.Split(s, "."): the segments between the dots, "" giving one empty segment.
RECURSIVE Split(_)
Split(s) ==
    IF \A i \in 1..Len(s) : s[i] # "."
    THEN <<s>>
    ELSE LET d == CHOOSE i \in 1..Len(s) : s[i] = "." /\ \A j \in 1..(i - 1) : s[j] # "."
         IN <<SubSeq(s, 1, d - 1)>> \o Split(SubSeq(s, d + 1, Len(s)))

ErrDocumentPathEmptyKey == "empty_key"
ErrDocumentPathOther == "malformed"

\* types.NewPathFromString: the path of the segments, or a DocumentPathError whose
\* code is that of the first bad segment: "empty key" for an empty one, another
\* code for any other malformed one (here: a segment that starts with "$").
NewPathFromString(s) ==
    LET parts == Split(s)
        bad == {i \in 1..Len(parts) : parts[i] = <<>> \/ HasPrefix(parts[i], "$")}
    IN IF bad = {}
       THEN [err |-> "nil", len |-> Len(parts)]
       ELSE LET i == CHOOSE k \in bad : \A j \in bad : k <= j
            IN [err |-> IF parts[i] = <<>> THEN ErrDocumentPathEmptyKey ELSE ErrDocumentPathOther,
                len |-> 0]

\* pjson.MarshalSingleValue: the JSON text stored for a value.  The numeric kinds
\* and dates are all JSON numbers, strings and object ids are JSON strings, so
\* values of different types can have the same JSON text.
RECURSIVE MarshalSingleValue(_)
MarshalSingleValue(val) ==
    LET json(j, n, s, b, a) == [j |-> j, n |-> n, s |-> s, b |-> b, a |-> a]
    IN CASE val.t \in {"double", "int", "long", "date", "timestamp"} -> json("number", val.v, "", FALSE, <<>>)
         [] val.t \in {"string", "objectId", "binData", "regex"} -> json("string", 0, val.v, FALSE, <<>>)
         [] val.t = "bool" -> json("bool", 0, "", val.v, <<>>)
         [] val.t = "array" -> json("array", 0, "", FALSE, [i \in 1..Len(val.v) |-> MarshalSingleValue(val.v[i])])
         [] val.t = "object" -> json("object", 0, "", FALSE, <<>>)
         [] OTHER -> json("null", 0, "", FALSE, <<>>)

\* pjson.GetTypeOfValue: the type tag recorded in the stored document's schema.
GetTypeOfValue(val) == val.t

\* ---------------------------------------------------------- filter compiler

\* Placeholder.Next: the next positional parameter, "$1" first; "$n" is n here.
PlaceholderNext(p) == p + 1

\* The accumulators of prepareWhereClause: filters, args and the Placeholder p.
NoFilters == [filters |-> <<>>, args |-> <<>>, p |-> 0]

\* `_jsonb->%[1]s @> %[2]s` with p.Next(), p.Next(); args gets rootKey and the
\* marshalled value (the scalar and the $eq cases).
equalPredicate(acc, rootKey, val) ==
    LET k == PlaceholderNext(acc.p)
        a == PlaceholderNext(k)
    IN [filters |-> Append(acc.filters, [sql |-> "contains", key |-> k, arg |-> a, t |-> ""]),
        args |-> acc.args \o <<rootKey, MarshalSingleValue(val)>>,
        p |-> a]

\* nePredicate comparing the recorded type tag with the JSON type of the value
\* instead of its pjson type.
nePredicateJsonType(acc, rootKey, val) ==
    LET k == PlaceholderNext(acc.p)
        a == PlaceholderNext(k)
    IN [filters |-> Append(acc.filters, [sql |-> "not_equal_typed", key |-> k, arg |-> a,
                                         t |-> MarshalSingleValue(val).j]),
        args |-> acc.args \o <<rootKey, MarshalSingleValue(val)>>,
        p |-> a]

\* nePredicate taking a further placeholder, bound to the key again, for the
\* key of its type comparison.
nePredicateThreePlaceholders(acc, rootKey, val) ==
    LET k == PlaceholderNext(acc.p)
        a == PlaceholderNext(k)
    IN [filters |-> Append(acc.filters, [sql |-> "not_equal_typed", key |-> k, arg |-> a,
                                         t |-> GetTypeOfValue(val)]),
        args |-> acc.args \o <<rootKey, MarshalSingleValue(val), rootKey>>,
        p |-> PlaceholderNext(a)]

\* `NOT ( _jsonb ? %[1]s AND _jsonb->%[1]s @> %[2]s AND
\*        _jsonb->'$s'->'p'->%[1]s->'t' = '"%[3]s"' )` with p.Next(), p.Next() and
\* pjson.GetTypeOfValue(v); args gets rootKey and the marshalled value.
nePredicate(acc, rootKey, val) ==
    LET k == PlaceholderNext(acc.p)
        a == PlaceholderNext(k)
    IN [filters |-> Append(acc.filters, [sql |-> "not_equal_typed", key |-> k, arg |-> a,
                                         t |-> GetTypeOfValue(val)]),
        args |-> acc.args \o <<rootKey, MarshalSingleValue(val)>>,
        p |-> a]

\* The loop over a subdocument's entries: $eq and $ne of a scalar emit a
\* predicate, every other operator and every unsupported type emits nothing.
RECURSIVE subdocument(_, _, _)
subdocument(acc, rootKey, pairs) ==
    IF pairs = <<>>
    THEN acc
    ELSE LET k == Head(pairs)[1]
             val == Head(pairs)[2]
             next == CASE k = OpEq /\ val.t \in ScalarTypes -> equalPredicate(acc, rootKey, val)
                       [] k = OpNe /\ val.t \in ScalarTypes -> nePredicate(acc, rootKey, val)
                       [] OTHER -> acc
         IN subdocument(next, rootKey, Tail(pairs))

\* rootValue with null among the scalars.
rootValuePushesNull(acc, rootKey, rootVal) ==
    CASE rootVal.t = "object" -> subdocument(acc, rootKey, rootVal.v)
      [] rootVal.t \in UnsupportedTypes \ {"object", "null"} -> acc
      [] rootVal.t \in ScalarTypes \cup {"null"} -> equalPredicate(acc, rootKey, rootVal)

\* What one root entry adds to the accumulators once its key passed the checks.
rootValue(acc, rootKey, rootVal) ==
    CASE rootVal.t = "object" -> subdocument(acc, rootKey, rootVal.v)
      [] rootVal.t \in UnsupportedTypes \ {"object"} -> acc
      [] rootVal.t \in ScalarTypes -> equalPredicate(acc, rootKey, rootVal)

\* rootDocument without the check of the path's length.
RECURSIVE rootDocumentDotted(_, _)
rootDocumentDotted(acc, pairs) ==
    IF pairs = <<>>
    THEN [where |-> acc.filters, args |-> acc.args, err |-> "nil"]
    ELSE LET rootKey == Head(pairs)[1]
             rootVal == Head(pairs)[2]
             path == NewPathFromString(rootKey)
         IN CASE HasPrefix(rootKey, "$") -> rootDocumentDotted(acc, Tail(pairs))
              [] ~HasPrefix(rootKey, "$") /\ path.err \notin {"nil", ErrDocumentPathEmptyKey} ->
                    [where |-> <<>>, args |-> <<>>, err |-> path.err]
              [] OTHER -> rootDocumentDotted(rootValue(acc, rootKey, rootVal), Tail(pairs))

\* rootDocument skipping the entry of a key whose parsing fails with "empty key".
RECURSIVE rootDocumentSkipsEmptyKey(_, _)
rootDocumentSkipsEmptyKey(acc, pairs) ==
    IF pairs = <<>>
    THEN [where |-> acc.filters, args |-> acc.args, err |-> "nil"]
    ELSE LET rootKey == Head(pairs)[1]
             rootVal == Head(pairs)[2]
             path == NewPathFromString(rootKey)
         IN CASE HasPrefix(rootKey, "$") -> rootDocumentSkipsEmptyKey(acc, Tail(pairs))
              [] ~HasPrefix(rootKey, "$") /\ path.err = "nil" /\ path.len > 1 ->
                    rootDocumentSkipsEmptyKey(acc, Tail(pairs))
              [] ~HasPrefix(rootKey, "$") /\ path.err = ErrDocumentPathEmptyKey ->
                    rootDocumentSkipsEmptyKey(acc, Tail(pairs))
              [] ~HasPrefix(rootKey, "$") /\ path.err \notin {"nil", ErrDocumentPathEmptyKey} ->
                    [where |-> <<>>, args |-> <<>>, err |-> path.err]
              [] OTHER -> rootDocumentSkipsEmptyKey(rootValue(acc, rootKey, rootVal), Tail(pairs))

\* The loop over the root document: directives and dotted paths are skipped, a
\* path error other than "empty key" ends the compilation, an "empty key" error
\* is ignored and the entry compiled like any other.
RECURSIVE rootDocument(_, _)
rootDocument(acc, pairs) ==
    IF pairs = <<>>
    THEN [where |-> acc.filters, args |-> acc.args, err |-> "nil"]
    ELSE LET rootKey == Head(pairs)[1]
             rootVal == Head(pairs)[2]
             path == NewPathFromString(rootKey)
         IN CASE HasPrefix(rootKey, "$") -> rootDocument(acc, Tail(pairs))
              [] ~HasPrefix(rootKey, "$") /\ path.err = "nil" /\ path.len > 1 ->
                    rootDocument(acc, Tail(pairs))
              [] ~HasPrefix(rootKey, "$") /\ path.err \notin {"nil", ErrDocumentPathEmptyKey} ->
                    [where |-> <<>>, args |-> <<>>, err |-> path.err]
              [] OTHER -> rootDocument(rootValue(acc, rootKey, rootVal), Tail(pairs))

\* prepareWhereClause: where is the list of the predicates joined by AND (empty:
\* no WHERE clause), args the arguments bound to the placeholders.
prepareWhereClause(sqlFilters) == rootDocument(NoFilters, sqlFilters)

\* ------------------------------------------------------------ query text

\* strings.ReplaceAll(s, old, new) for a non-empty old: the occurrences of old
\* that do not overlap, from the left, are replaced by new.
RECURSIVE ReplaceAll(_, _, _)
ReplaceAll(s, old, new) ==
    IF Len(s) < Len(old)
    THEN s
    ELSE IF SubSeq(s, 1, Len(old)) = old
         THEN new \o ReplaceAll(SubSeq(s, Len(old) + 1, Len(s)), old, new)
         ELSE <<Head(s)>> \o ReplaceAll(Tail(s), old, new)

\* commentBlock replacing the comment openers only.
commentBlockOpenersOnly(c) ==
    IF c = <<>>
    THEN <<>>
    ELSE <<"/", "*", " ">> \o ReplaceAll(c, <<"/", "*">>, <<"/", " ", "*">>) \o <<" ", "*", "/", " ">>

\* The comment of the query, character by character: nothing for an empty
\* comment, else the comment between `/* ` and ` */ `, every "/*" of it replaced
\* by "/ *" and then every "*/" by "* /".  Explain has the same lines (75-81).
commentBlock(c) ==
    IF c = <<>>
    THEN <<>>
    ELSE <<"/", "*", " ">>
         \o ReplaceAll(ReplaceAll(c, <<"/", "*">>, <<"/", " ", "*">>), <<"*", "/">>, <<"*", " ", "/">>)
         \o <<" ", "*", "/", " ">>

\* A query: its text up to the WHERE clause (the fixed parts are one element
\* each, the comment block is spelled out), the predicates of the WHERE clause
\* and the arguments bound to its placeholders.
NoQuery == [text |-> <<>>, where |-> <<>>, args |-> <<>>]

\* The text both buildIterator and Explain put together: the EXPLAIN prefix if
\* asked for, the projection, the comment block, the sanitized table identifier.
selectFrom(params) ==
    (IF params.Explain THEN <<"EXPLAIN (VERBOSE true, FORMAT JSON) ">> ELSE <<>>)
    \o <<"SELECT _jsonb ">>
    \o commentBlock(params.Comment)
    \o <<" FROM ", "\"db\".\"table\"">>

\* ------------------------------------------------------------ the backend

\* Document.Has and Document.Get on an ordered list of pairs.
Has(doc, key) == \E i \in 1..Len(doc) : doc[i][1] = key
Get(doc, key) == doc[CHOOSE i \in 1..Len(doc) : doc[i][1] = key][2]

\* jsonb's a @> b for a scalar b: a scalar contains its equal, an array contains
\* each of its top-level scalars, an object contains no scalar.
JsonbContains(a, b) ==
    IF a.j = "array"
    THEN \E i \in 1..Len(a.a) : a.a[i] = b
    ELSE a = b

\* SQL's three-valued logic: "T", "F" and "N" (NULL).
SqlBool(b) == IF b THEN "T" ELSE "F"
SqlAnd(x, y) == IF x = "F" \/ y = "F" THEN "F" ELSE IF x = "N" \/ y = "N" THEN "N" ELSE "T"
SqlNot(x) == IF x = "N" THEN "N" ELSE IF x = "T" THEN "F" ELSE "T"

\* One predicate of the WHERE clause on one stored document, placeholder $n bound
\* to args[n].  _jsonb->key is NULL for a missing key, _jsonb ? key never is, and
\* _jsonb->'$s'->'p'->key->'t' is the type tag pjson recorded for the field.
EvalPredicate(pred, args, doc) ==
    LET key == args[pred.key]
        arg == args[pred.arg]
        contains == IF Has(doc, key)
                    THEN SqlBool(JsonbContains(MarshalSingleValue(Get(doc, key)), arg))
                    ELSE "N"
        sameType == IF Has(doc, key)
                    THEN SqlBool(GetTypeOfValue(Get(doc, key)) = pred.t)
                    ELSE "N"
    IN IF pred.sql = "contains"
       THEN contains
       ELSE SqlNot(SqlAnd(SqlBool(Has(doc, key)), SqlAnd(contains, sameType)))

\* tx.Query: the rows of the table for which every predicate of the WHERE clause
\* is true (all of them without a WHERE clause).
Query(where, args, coll) ==
    {doc \in coll : \A i \in 1..Len(where) : EvalPredicate(where[i], args, doc) = "T"}

\* ------------------------------------------------- the in-memory filter

NumberTypes == {"int", "long", "double"}

\* types.Compare giving Equal: numbers compare by value across the numeric types,
\* everything else by type and value.
Equal(a, b) ==
    IF a.t \in NumberTypes /\ b.t \in NumberTypes
    THEN a.v = b.v
    ELSE a.t = b.t /\ a.v = b.v

Missing == [ok |-> FALSE, val |-> Null]

\* Document.GetByPath: the value under the path's segments, if there is one.
RECURSIVE GetByPath(_, _)
GetByPath(doc, segments) ==
    IF ~Has(doc, Head(segments))
    THEN Missing
    ELSE LET val == Get(doc, Head(segments))
         IN IF Len(segments) = 1
            THEN [ok |-> TRUE, val |-> val]
            ELSE IF val.t = "object" THEN GetByPath(val.v, Tail(segments)) ELSE Missing

\* {field: value} and {field: {$eq: value}}: the field equals the value or is an
\* array holding it; null also matches a missing field.
filterEqual(doc, segments, val) ==
    LET got == GetByPath(doc, segments)
        holds == /\ got.ok
                 /\ \/ Equal(got.val, val)
                    \/ /\ got.val.t = "array"
                       /\ \E i \in 1..Len(got.val.v) : Equal(got.val.v[i], val)
    IN IF val.t = "null" THEN ~got.ok \/ holds ELSE holds

\* {field: {$op: value}} for one operator.
filterFieldExpr(doc, segments, op, val) ==
    CASE op = OpEq -> filterEqual(doc, segments, val)
      [] op = OpNe -> ~filterEqual(doc, segments, val)
      [] op = OpGt -> LET got == GetByPath(doc, segments)
                      IN /\ got.ok
                         /\ got.val.t \in NumberTypes
                         /\ val.t \in NumberTypes
                         /\ got.val.v > val.v
      [] OTHER -> FALSE

\* One entry of the filter on one document: a directive matches everything, a
\* dotted key that is no path matches nothing, a document of operators is the
\* conjunction of its operators, any other value is an equality.
filterDocumentPair(doc, key, val) ==
    LET dotted == \E i \in 1..Len(key) : key[i] = "."
        segments == IF dotted THEN Split(key) ELSE <<key>>
    IN CASE HasPrefix(key, "$") -> TRUE
         [] ~HasPrefix(key, "$") /\ dotted /\ NewPathFromString(key).err # "nil" -> FALSE
         [] OTHER ->
              IF val.t = "object" /\ val.v # <<>> /\ HasPrefix(val.v[1][1], "$")
              THEN \A i \in 1..Len(val.v) : filterFieldExpr(doc, segments, val.v[i][1], val.v[i][2])
              ELSE filterEqual(doc, segments, val)

\* common.FilterDocument: the document passes every entry of the filter.
FilterDocument(doc, f) == \A i \in 1..Len(f) : filterDocumentPair(doc, f[i][1], f[i][2])

\* ------------------------------------------------------------------ inputs

\* Top-level keys: two plain ones, and the ones the compiler treats specially:
\* the empty key, a dotted path, a key with an empty segment, a directive and a
\* key with a malformed segment.
PlainKeys == {<<"v">>, <<"w">>}
SpecialKeys == {<<>>, <<"v", ".", "w">>, <<"v", ".">>, <<"$", "c">>, <<"v", ".", "$">>}
FilterKeys == PlainKeys \cup SpecialKeys

ScalarValues ==
    {Int32(42), Int64(42), Double(42), String("42"), ObjectID("42"), Bool(TRUE), Time(42)}

UnsupportedValues == {Null, Array(<<Int32(42)>>), Binary, Regex, Timestamp}

SubDocuments ==
    {Document(<<>>),
     Document(<<<<OpEq, Int32(42)>>>>),
     Document(<<<<OpNe, Int32(42)>>>>),
     Document(<<<<OpNe, Int64(42)>>>>),
     Document(<<<<OpGt, Int32(7)>>>>),
     Document(<<<<OpEq, Null>>>>),
     Document(<<<<OpNe, Array(<<Int32(42)>>)>>>>),
     Document(<<<<OpNe, String("42")>>, <<OpEq, Int32(42)>>>>),
     Document(<<<<<<"w">>, Int32(42)>>>>)}

FilterValues == ScalarValues \cup UnsupportedValues \cup SubDocuments

\* The values tried under a special key: a scalar, an operator and a value that
\* is never pushed down.
SpecialValues == {Int32(42), Document(<<<<OpNe, Int32(42)>>>>), Null}

Entries == (PlainKeys \X FilterValues) \cup (SpecialKeys \X SpecialValues)

\* The filter documents: at most MaxFilterLen entries, no key twice.
Filters ==
    UNION {{f \in [1..n -> Entries] :
              \A i, j \in 1..n : i # j => f[i][1] # f[j][1]} : n \in 0..MaxFilterLen}

\* The stored collection: documents with or without the fields "v", "w" and "".
Absent == [t |-> "absent", v |-> 0]
Field(key, val) == IF val = Absent THEN <<>> ELSE <<<<key, val>>>>
Collection ==
    {Field(<<"v">>, a) \o Field(<<"w">>, b) \o Field(<<>>, c) :
        a \in {Absent, Int32(42), Int64(42), String("42"), Int32(7), Time(42), Null,
               Array(<<Int32(42)>>), Document(<<<<<<"w">>, Int32(42)>>>>)},
        b \in {Absent, Int32(42), String("42")},
        c \in {Absent, Int32(42)}}

\* ------------------------------------------------------------ the iterator

\* A record of the backend cursor: its place in the stream and the schema version
\* it was written under (0: matched by no schema).
Records(at) == {[id |-> at, ver |-> n] : n \in 0..MaxSchema}

\* tjson.Unmarshal(document, schema): fails when the schema is nil or older than
\* the record, else gives the document.
Unmarshal(document, s) ==
    [ok |-> s # NilSchema /\ document.ver >= 1 /\ document.ver <= s, doc |-> document.id]

\* TigrisDB.RefreshCollectionSchema: the authoritative schema, or nil and an error.
RefreshCollectionSchema(auth, reachable) ==
    IF reachable THEN [schema |-> auth, err |-> "nil"] ELSE [schema |-> NilSchema, err |-> "refresh"]

\* driver.Iterator.Next(&document): what the cursor may answer.  An open cursor
\* delivers its next record, ends, or fails; after that it stays as it is.
DriverNext(c, at) ==
    IF c = "open"
    THEN {[ok |-> TRUE, document |-> d, cur |-> "open", pos |-> at + 1] :
             d \in IF at < MaxRecords THEN Records(at + 1) ELSE {}}
         \cup {[ok |-> FALSE, document |-> [id |-> 0, ver |-> 0], cur |-> e, pos |-> at] :
                  e \in {"eof", "invalid_argument", "other"}}
    ELSE {[ok |-> FALSE, document |-> [id |-> 0, ver |-> 0], cur |-> c, pos |-> at]}

\* driver.Iterator.Err()
DriverErr(c) == IF c \in {"invalid_argument", "other"} THEN c ELSE "nil"

\* IsInvalidArgument(err)
IsInvalidArgument(err) == err = "invalid_argument"

\* The iterator with its cursor, and what the running call returns.
It ==
    [iter |-> iter, schema |-> schema, registered |-> registered, finalizer |-> finalizer,
     cur |-> cur, pos |-> pos, closeCount |-> closeCount, nilCalls |-> nilCalls,
     nRefresh |-> nRefresh,
     res |-> "none", doc |-> 0, idx |-> {}, ver |-> -1, refresh |-> "none", adv |-> "none"]

\* close calling iter.iter.Close() without the nil check: on an iterator without
\* a cursor that is a method call on nil.
closeUnguarded(it) ==
    LET off == [it EXCEPT !.registered = FALSE, !.finalizer = FALSE]
    IN IF it.iter # NIL
       THEN [off EXCEPT !.cur = "closed", !.closeCount = @ + 1, !.iter = NIL]
       ELSE [off EXCEPT !.nilCalls = @ + 1]

\* close that closes the cursor and leaves it in iter.iter.
closeKeepsCursor(it) ==
    LET off == [it EXCEPT !.registered = FALSE, !.finalizer = FALSE]
    IN IF it.iter # NIL
       THEN [off EXCEPT !.cur = "closed", !.closeCount = @ + 1]
       ELSE off

\* close that leaves the iterator in the profile.
closeKeepsRegistered(it) ==
    LET off == [it EXCEPT !.finalizer = FALSE]
    IN IF it.iter # NIL
       THEN [off EXCEPT !.cur = "closed", !.closeCount = @ + 1, !.iter = NIL]
       ELSE off

\* close that leaves the finalizer armed.
closeKeepsFinalizer(it) ==
    LET off == [it EXCEPT !.registered = FALSE]
    IN IF it.iter # NIL
       THEN [off EXCEPT !.cur = "closed", !.closeCount = @ + 1, !.iter = NIL]
       ELSE off

\* queryIterator.close: unregisters, disarms the finalizer, and closes and drops
\* the cursor if there is one.
close(it) ==
    LET off == [it EXCEPT !.registered = FALSE, !.finalizer = FALSE]
    IN IF it.iter # NIL
       THEN [off EXCEPT !.cur = "closed", !.closeCount = @ + 1, !.iter = NIL]
       ELSE off

\* decode that refreshes the schema and reports the first failure all the same.
decodeNoRetry(it, document, reachable) ==
    LET first == Unmarshal(document, it.schema)
        fresh == RefreshCollectionSchema(authSchema, reachable)
        got == [it EXCEPT !.ver = document.ver]
        refreshed == [got EXCEPT !.schema = fresh.schema, !.nRefresh = @ + 1,
                                 !.refresh = IF fresh.err = "nil" THEN "ok" ELSE "failed"]
    IN IF first.ok
       THEN [got EXCEPT !.res = "doc", !.doc = first.doc]
       ELSE [refreshed EXCEPT !.res = "fatal"]

\* decode assigning the schema only after a refresh that succeeded.
decodeKeepsSchema(it, document, reachable) ==
    LET first == Unmarshal(document, it.schema)
        fresh == RefreshCollectionSchema(authSchema, reachable)
        second == Unmarshal(document, fresh.schema)
        got == [it EXCEPT !.ver = document.ver]
        failed == [got EXCEPT !.nRefresh = @ + 1, !.refresh = "failed"]
        refreshed == [got EXCEPT !.schema = fresh.schema, !.nRefresh = @ + 1, !.refresh = "ok"]
    IN CASE first.ok -> [got EXCEPT !.res = "doc", !.doc = first.doc]
         [] ~first.ok /\ fresh.err # "nil" -> [failed EXCEPT !.res = "fatal"]
         [] ~first.ok /\ fresh.err = "nil" /\ ~second.ok -> [refreshed EXCEPT !.res = "fatal"]
         [] OTHER -> [refreshed EXCEPT !.res = "doc", !.doc = second.doc]

\* Lines 131-144 of Next: decode, and on failure refresh the schema once and
\* decode again.  The first value returned is the empty struct, not an index.
decode(it, document, reachable) ==
    LET first == Unmarshal(document, it.schema)
        fresh == RefreshCollectionSchema(authSchema, reachable)
        second == Unmarshal(document, fresh.schema)
        got == [it EXCEPT !.ver = document.ver]
        refreshed == [got EXCEPT !.schema = fresh.schema, !.nRefresh = @ + 1,
                                 !.refresh = IF fresh.err = "nil" THEN "ok" ELSE "failed"]
    IN CASE first.ok -> [got EXCEPT !.res = "doc", !.doc = first.doc]
         [] ~first.ok /\ fresh.err # "nil" -> [refreshed EXCEPT !.res = "fatal"]
         [] ~first.ok /\ fresh.err = "nil" /\ ~second.ok -> [refreshed EXCEPT !.res = "fatal"]
         [] OTHER -> [refreshed EXCEPT !.res = "doc", !.doc = second.doc]

\* advance that reports done at the cursor's end without closing the iterator.
advanceNoClose(it, adv, reachable) ==
    LET moved == [it EXCEPT !.cur = adv.cur, !.pos = adv.pos, !.adv = adv.cur]
        err == DriverErr(adv.cur)
    IN CASE adv.ok -> decode(moved, adv.document, reachable)
         [] ~adv.ok /\ err # "nil" /\ ~IsInvalidArgument(err) -> [moved EXCEPT !.res = "fatal"]
         [] OTHER -> [moved EXCEPT !.res = ErrIteratorDone]

\* advance reporting an "invalid argument" error of the cursor like any other.
advanceInvalidArgumentFatal(it, adv, reachable) ==
    LET moved == [it EXCEPT !.cur = adv.cur, !.pos = adv.pos, !.adv = adv.cur]
        err == DriverErr(adv.cur)
    IN CASE adv.ok -> decode(moved, adv.document, reachable)
         [] ~adv.ok /\ err # "nil" -> [moved EXCEPT !.res = "fatal"]
         [] OTHER -> [close(moved) EXCEPT !.res = ErrIteratorDone]

\* Lines 108-129 of Next: advance the cursor; at its end, or on an "invalid
\* argument" error, close and report done; on another error report it.
advance(it, adv, reachable) ==
    LET moved == [it EXCEPT !.cur = adv.cur, !.pos = adv.pos, !.adv = adv.cur]
        err == DriverErr(adv.cur)
    IN CASE adv.ok -> decode(moved, adv.document, reachable)
         [] ~adv.ok /\ err # "nil" /\ ~IsInvalidArgument(err) -> [moved EXCEPT !.res = "fatal"]
         [] OTHER -> [close(moved) EXCEPT !.res = ErrIteratorDone]

\* next checking the context before the closed state.
nextContextFirst(it, adv, reachable) ==
    CASE ctxErr # "nil" -> [it EXCEPT !.res = ctxErr]
      [] ctxErr = "nil" /\ it.iter = NIL -> [it EXCEPT !.res = ErrIteratorDone]
      [] OTHER -> advance(it, adv, reachable)

\* The body of Next under the mutex: the closed check, the context check, then
\* the cursor.
next(it, adv, reachable) ==
    CASE it.iter = NIL -> [it EXCEPT !.res = ErrIteratorDone]
      [] it.iter # NIL /\ ctxErr # "nil" -> [it EXCEPT !.res = ctxErr]
      [] OTHER -> advance(it, adv, reachable)

\* The iterator's fields and its cursor take the values of r.
Becomes(r) ==
    /\ iter' = r.iter
    /\ schema' = r.schema
    /\ registered' = r.registered
    /\ finalizer' = r.finalizer
    /\ cur' = r.cur
    /\ pos' = r.pos
    /\ closeCount' = r.closeCount
    /\ nilCalls' = r.nilCalls
    /\ nRefresh' = r.nRefresh

\* queryIterator.Next
Next ==
    /\ qres = "iter"
    /\ \E adv \in DriverNext(cur, pos), reachable \in BOOLEAN :
          LET r == next(It, adv, reachable)
          IN /\ Becomes(r)
             /\ last' = [op |-> "Next", res |-> r.res, doc |-> r.doc, idx |-> r.idx,
                         ver |-> r.ver, refresh |-> r.refresh, ctx |-> ctxErr, adv |-> r.adv]
             /\ hist' = [hist EXCEPT !.done = @ \/ r.res = ErrIteratorDone,
                                     !.fatal = @ \/ r.res = "fatal",
                                     !.docs = IF r.res = "doc" THEN @ + 1 ELSE @]
    /\ tick' = 1 - tick
    /\ UNCHANGED <<qres, lookup, executed, authSchema, ctxErr, filterVars, concVars, queryVars>>

\* queryIterator.Close
Close ==
    /\ qres = "iter"
    /\ Becomes(close(It))
    /\ last' = [op |-> "Close", res |-> "none", doc |-> 0, idx |-> {}, ver |-> -1,
                refresh |-> "none", ctx |-> ctxErr, adv |-> "none"]
    /\ hist' = [hist EXCEPT !.closed = TRUE]
    /\ tick' = 1 - tick
    /\ UNCHANGED <<qres, lookup, executed, authSchema, ctxErr, filterVars, concVars, queryVars>>

\* The iterator a constructor returns: registered in the profile, its finalizer
\* armed, holding the cursor it was given (none for a missing collection).
newQueryIterator(titer, s) ==
    /\ iter' = titer
    /\ schema' = s
    /\ registered' = TRUE
    /\ finalizer' = TRUE
    /\ cur' = IF titer = NIL THEN "none" ELSE "open"

\* pgdb's newIterator(ctx, rows): the same iterator, without a schema.
newIterator(rowsOrNil, s) == newQueryIterator(rowsOrNil, s)

NotCompiled == [where |-> <<>>, args |-> <<>>, err |-> "not_compiled"]

\* The filters QueryDocuments is called with in Spec: none, one that compiles to
\* a predicate, and one that does not compile.
QueryFilters ==
    {<<>>, <<<<<<"v">>, Int32(42)>>>>, <<<<<<"v", ".", "$">>, Int32(42)>>>>}

\* queryDocuments returning an error for a missing table, as Explain does.
queryDocumentsNoTable(found, built, txOk) ==
    CASE found \in {"notexist", "other"} -> "lookup_error"
      [] found = "ok" /\ built.err # "nil" -> "where_error"
      [] found = "ok" /\ built.err = "nil" /\ ~txOk -> "query_error"
      [] OTHER -> "rows"

\* The way QueryDocuments and buildIterator take: a missing table gives an empty
\* iterator, any other lookup error an error; then the filter is compiled and the
\* query run on the transaction, an error of either being returned.
queryDocuments(found, built, txOk) ==
    CASE found = "notexist" -> "empty"
      [] found = "other" -> "lookup_error"
      [] found = "ok" /\ built.err # "nil" -> "where_error"
      [] found = "ok" /\ built.err = "nil" /\ ~txOk -> "query_error"
      [] OTHER -> "rows"

\* QueryDocuments: the table lookup, then buildIterator: the query built from the
\* parameters and the compiled filter and run on the transaction, and the
\* iterator over its rows.
QueryDocuments ==
    /\ qres = "none"
    /\ \E found \in {"ok", "notexist", "other"}, f \in QueryFilters, txOk \in BOOLEAN,
          s \in 1..authSchema :
          LET built == prepareWhereClause(f)
              way == queryDocuments(found, built, txOk)
          IN /\ lookup' = found
             /\ qres' = IF way \in {"empty", "rows"} THEN "iter" ELSE "error"
             /\ IF way \in {"where_error", "query_error", "rows"}
                THEN filter' = f /\ compiled' = built
                ELSE UNCHANGED <<filter, compiled>>
             /\ executed' = IF way \in {"query_error", "rows"} THEN executed + 1 ELSE executed
             /\ query' = IF way \in {"query_error", "rows"}
                         THEN [text |-> selectFrom(qp), where |-> built.where, args |-> built.args]
                         ELSE query
             /\ CASE way = "empty" -> newIterator(NIL, NilSchema)
                  [] way = "rows" -> newIterator(CURSOR, s)
                  [] OTHER -> UNCHANGED <<iter, schema, registered, finalizer, cur>>
    /\ UNCHANGED <<pos, closeCount, nilCalls, authSchema, nRefresh, ctxErr, tick, last, hist,
                   rows, refiltered, fpc, concVars, qp, ex>>

\* The caller's context is cancelled or runs past its deadline.
Cancel ==
    /\ ctxErr = "nil"
    /\ ctxErr' \in {"canceled", "deadline"}
    /\ UNCHANGED <<qres, lookup, executed, iter, schema, registered, finalizer, cur, pos,
                   closeCount, nilCalls, authSchema, nRefresh, tick, last, hist, filterVars,
                   concVars, queryVars>>

\* The collection's schema changes in the backend.
SchemaDrift ==
    /\ authSchema < MaxSchema
    /\ authSchema' = authSchema + 1
    /\ UNCHANGED <<qres, lookup, executed, iter, schema, registered, finalizer, cur, pos,
                   closeCount, nilCalls, nRefresh, ctxErr, tick, last, hist, filterVars,
                   concVars, queryVars>>

NoCall ==
    [op |-> "none", res |-> "none", doc |-> 0, idx |-> {}, ver |-> -1, refresh |-> "none",
     ctx |-> "nil", adv |-> "none"]

InitIter ==
    /\ qres = "none"
    /\ lookup = "none"
    /\ executed = 0
    /\ iter = NIL
    /\ schema = NilSchema
    /\ registered = FALSE
    /\ finalizer = FALSE
    /\ cur = "none"
    /\ pos = 0
    /\ closeCount = 0
    /\ nilCalls = 0
    /\ authSchema = 1
    /\ nRefresh = 0
    /\ ctxErr = "nil"
    /\ tick = 0
    /\ last = NoCall
    /\ hist = [done |-> FALSE, closed |-> FALSE, fatal |-> FALSE, docs |-> 0]

\* Nobody calls the iterator yet.
Actors == 1..MaxActors
Idle == [op |-> "none", res |-> "none", doc |-> 0, afterClose |-> FALSE]
InitConc ==
    /\ m = 0
    /\ pc = [a \in Actors |-> "idle"]
    /\ call = [a \in Actors |-> Idle]
    /\ lateOp = FALSE
    /\ returned = <<>>
    /\ gc = "live"

NotExplained ==
    [exists |-> "none", found |-> "none", res |-> "none", query |-> NoQuery, executed |-> 0]

\* Query parameters without a comment and without the EXPLAIN prefix.
InitQueryParams ==
    /\ qp = [Comment |-> <<>>, Explain |-> FALSE]
    /\ query = NoQuery
    /\ ex = NotExplained

Init ==
    /\ InitIter
    /\ filter = <<>>
    /\ compiled = NotCompiled
    /\ rows = {}
    /\ refiltered = {}
    /\ fpc = "start"
    /\ InitConc
    /\ InitQueryParams

StepIter == QueryDocuments \/ Next \/ Close \/ Cancel \/ SchemaDrift

\* One iterator, from QueryDocuments on, with its caller and its environment.
Spec == Init /\ [][StepIter]_vars

\* ------------------------------------------------ properties of the iterator

\* A step that is a call of Next, and one that is a call of Close.
NextCall == tick' # tick /\ last'.op = "Next"
CloseCall == tick' # tick /\ last'.op = "Close"

\* The iterator and its cursor, as Next and Close can change them.
iterState == <<iter, schema, registered, finalizer, cur, pos, closeCount, nilCalls, nRefresh>>

\* C1: once a Next() has returned "iteration done", every later Next() on the
\* iterator returns "iteration done" too, also when the context was cancelled or
\* its deadline passed after the exhaustion.
ExhaustionStability ==
    [][(hist.done /\ NextCall) => last'.res = ErrIteratorDone]_vars

\* A Next() that found the context cancelled and returned "iteration done", on an
\* iterator with a cursor that no Close() has been called on: it was exhausted by
\* a Next(), before the cancellation.
ExhaustedThenCancelled ==
    /\ lookup = "ok"
    /\ ~hist.closed
    /\ last.op = "Next"
    /\ last.ctx # "nil"
    /\ last.res = ErrIteratorDone

\* C2: no call of Next() or Close() calls a method of a nil cursor (a panic), a
\* Close() after a Close() changes nothing of the iterator, and every Next() after
\* a Close() returns "iteration done", whatever the context.
IteratorIdempotence ==
    [][/\ nilCalls' = 0
       /\ (hist.closed /\ CloseCall) => UNCHANGED iterState
       /\ (hist.closed /\ NextCall) => (last'.res = ErrIteratorDone /\ UNCHANGED iterState)]_vars

\* A Next() after a Close(), with the context cancelled, on an iterator that had
\* a cursor and was not exhausted before.
NextAfterClose ==
    /\ lookup = "ok"
    /\ hist.closed
    /\ closeCount = 1
    /\ last.op = "Next"
    /\ last.ctx # "nil"
    /\ last.res = ErrIteratorDone

\* C3: the cursor's Close is invoked at most once, and once a Close() of an
\* iterator created with a cursor has returned, the cursor has been closed exactly
\* once and the iterator holds it no more.
ExactlyOnceRelease ==
    /\ closeCount <= 1
    /\ (hist.closed /\ lookup = "ok" /\ qres = "iter") =>
          (closeCount = 1 /\ cur = "closed" /\ iter = NIL)

\* A Close() after a Next() that returned a fatal error, on an iterator no Next()
\* had exhausted.
ClosedAfterFatal ==
    /\ last.op = "Close"
    /\ hist.fatal
    /\ ~hist.done
    /\ closeCount = 1

\* C4: a successful Next() returns the number of successful calls before it: 0
\* for the first, one more for each later one.
MonotonicIndices ==
    (last.op = "Next" /\ last.res = "doc") => last.idx = {hist.docs - 1}

\* C5: a Next() refreshes the schema at most once, and only for a record whose
\* decoding with the cached schema failed; when the refresh succeeds, the call
\* returns the document if the record decodes with the fresh schema and a fatal
\* error if it does not.
SchemaRetryBound ==
    [][NextCall =>
          LET document == [id |-> pos', ver |-> last'.ver]
          IN /\ nRefresh' \in {nRefresh, nRefresh + 1}
             /\ (nRefresh' = nRefresh + 1) <=> (last'.refresh # "none")
             /\ (nRefresh' = nRefresh + 1) =>
                   (pos' = pos + 1 /\ ~Unmarshal(document, schema).ok)
             /\ (last'.refresh = "ok" /\ Unmarshal(document, authSchema).ok) =>
                   (last'.res = "doc" /\ last'.doc = document.id)
             /\ (last'.refresh = "ok" /\ ~Unmarshal(document, authSchema).ok) =>
                   last'.res = "fatal"]_vars

\* A Next() whose first decode failed, that refreshed the schema and returned the
\* document.
RecoveredByRefresh ==
    /\ last.op = "Next"
    /\ last.refresh = "ok"
    /\ nRefresh = 1
    /\ last.res = "doc"
    /\ last.doc = pos

\* C6: for a missing table QueryDocuments returns no error and an iterator
\* without a cursor whose every Next(), the first included, reports "iteration
\* done", and neither compiles the filter nor runs a query; for any other lookup
\* error it returns an error and no iterator.
MissingCollection ==
    /\ lookup = "notexist" =>
          /\ qres = "iter"
          /\ iter = NIL
          /\ compiled = NotCompiled
          /\ executed = 0
          /\ pos = 0
          /\ last.op = "Next" => last.res = ErrIteratorDone
    /\ lookup = "other" =>
          /\ qres = "error"
          /\ iter = NIL /\ ~registered /\ ~finalizer
          /\ compiled = NotCompiled
          /\ executed = 0
          /\ last.op = "none"

\* The first call on the iterator of a missing table was a Next().
MissingCollectionNext ==
    /\ lookup = "notexist"
    /\ ~hist.closed
    /\ last.op = "Next"
    /\ last.res = ErrIteratorDone

\* C10: a Next() on an open iterator whose context is cancelled or past its
\* deadline returns that error and leaves the iterator and its cursor as they
\* were; on a closed iterator it returns "iteration done" whatever the context.
CancellationPrecedence ==
    [][NextCall =>
          /\ (iter # NIL /\ ctxErr # "nil") => (last'.res = ctxErr /\ UNCHANGED iterState)
          /\ (iter = NIL) => (last'.res = ErrIteratorDone /\ UNCHANGED iterState)]_vars

\* A Next() that returned the deadline error on an open iterator that has
\* delivered a record.
CancelledWhileOpen ==
    /\ last.op = "Next"
    /\ last.res = "deadline"
    /\ iter = CURSOR
    /\ cur = "open"
    /\ pos > 0

\* C16: a Next() whose cursor fails to advance with an "invalid argument" error
\* does what it does at the cursor's end: it reports "iteration done", closes
\* the cursor once, drops it, and leaves the iterator unregistered and disarmed;
\* a Next() whose cursor fails with another error reports a fatal error and
\* leaves the iterator as it was, open, holding its cursor, registered and armed.
\* The cursor is advanced by the calls on an open iterator whose context is live.
CursorFailureHandling ==
    [][NextCall =>
          /\ (last'.adv # "none") <=> (iter = CURSOR /\ ctxErr = "nil")
          /\ last'.adv \in {"invalid_argument", "eof"} =>
                /\ last'.res = ErrIteratorDone
                /\ iter' = NIL
                /\ cur' = "closed"
                /\ closeCount' = closeCount + 1
                /\ ~registered' /\ ~finalizer'
                /\ UNCHANGED <<pos, schema, nRefresh, nilCalls>>
          /\ last'.adv = "other" =>
                /\ last'.res = "fatal"
                /\ iter' = CURSOR
                /\ cur' = "other"
                /\ UNCHANGED <<pos, schema, nRefresh, nilCalls, closeCount, registered, finalizer>>
                /\ registered /\ finalizer]_vars

\* A Next() met an "invalid argument" error of a cursor that had delivered a
\* record, and reported "iteration done".
InvalidArgumentIsDone ==
    /\ last.op = "Next"
    /\ last.adv = "invalid_argument"
    /\ last.res = ErrIteratorDone
    /\ iter = NIL
    /\ closeCount = 1
    /\ pos > 0

\* What Next() and Close() do to the cached schema whatever the refresh gives:
\* on an iterator in use only the refresh of a Next() changes it, a refresh that
\* succeeds leaves the authoritative schema in it, and a Next() that does not
\* refresh, as one whose first decode succeeds, leaves it alone.
SchemaWrittenByRefresh ==
    /\ (qres = "iter" /\ schema' # schema) => (NextCall /\ last'.refresh # "none")
    /\ NextCall =>
          /\ last'.refresh = "ok" => schema' = authSchema
          /\ last'.refresh = "none" => (schema' = schema /\ nRefresh' = nRefresh)
          /\ (pos' = pos + 1 /\ Unmarshal([id |-> pos', ver |-> last'.ver], schema).ok) =>
                (last'.refresh = "none" /\ last'.res = "doc")

\* C18, as claimed: the cached schema is replaced only by a refresh that
\* succeeds; a Next() whose refresh fails returns a fatal error and leaves the
\* cached schema as it was before the call; a Next() whose first decode succeeds
\* does not touch it.
CachedSchemaFrameAsClaimed ==
    [][/\ SchemaWrittenByRefresh
       /\ (qres = "iter" /\ schema' # schema) => last'.refresh = "ok"
       /\ (NextCall /\ last'.refresh = "failed") => (last'.res = "fatal" /\ schema' = schema)]_vars

\* C18, amended: the cached schema is assigned what the refresh returned, before
\* the refresh's error is looked at: a Next() whose refresh fails returns a fatal
\* error and leaves the nil schema the failed refresh returned in the cache, not
\* the schema cached before; a refresh that succeeds leaves the authoritative
\* schema; a Next() whose first decode succeeds does not touch the cache.
CachedSchemaFrame ==
    [][/\ SchemaWrittenByRefresh
       /\ (NextCall /\ last'.refresh = "failed") =>
             /\ last'.res = "fatal"
             /\ schema' = NilSchema
             /\ (schema # NilSchema) => (schema' # schema)]_vars

\* A Next() whose refresh failed, on an iterator created with a schema: it
\* returned a fatal error and the iterator, still open, has no schema any more.
SchemaLostByFailedRefresh ==
    /\ last.op = "Next"
    /\ last.refresh = "failed"
    /\ last.res = "fatal"
    /\ lookup = "ok"
    /\ iter = CURSOR
    /\ schema = NilSchema
    /\ nRefresh = 1

\* The iterator's caller keeps calling Next(): a call of Next() that is possible
\* from some point on is made.
SpecLive == Init /\ [][StepIter]_vars /\ WF_vars(Next)

\* The last call was a Next() that reported "iteration done" on an iterator no
\* Close() was called on: the cursor has been closed, once, and dropped, and the
\* iterator is unregistered and disarmed.
DoneReleased ==
    /\ last.op = "Next"
    /\ last.res = ErrIteratorDone
    /\ ~hist.closed
    /\ iter = NIL
    /\ cur = "closed"
    /\ closeCount = 1
    /\ ~registered
    /\ ~finalizer

\* C19: an iterator over a cursor whose caller keeps calling Next() comes to a
\* Next() that reports "iteration done" with the cursor released and the
\* iterator closed, unregistered and disarmed, no Close() having been called,
\* unless before that the context is cancelled, a Next() returns a fatal error
\* or Close() is called; and whenever a Next() of such an iterator reports
\* "iteration done", the cursor has been released.
EventualSelfRelease ==
    /\ (qres = "iter" /\ lookup = "ok") ~>
          (DoneReleased \/ ctxErr # "nil" \/ hist.fatal \/ hist.closed)
    /\ [](/\ lookup = "ok"
          /\ last.op = "Next"
          /\ last.res = ErrIteratorDone
          => iter = NIL /\ cur = "closed" /\ closeCount = 1 /\ ~registered /\ ~finalizer)

\* A Next() reported "iteration done" after the cursor's records had been
\* returned, the context live, no fatal error and no Close() before.
SelfReleased ==
    /\ DoneReleased
    /\ ctxErr = "nil"
    /\ ~hist.fatal
    /\ last.adv = "eof"
    /\ hist.docs > 1
    /\ hist.docs = pos

\* ----------------------------------------------------- pushdown, end to end

\* buildIterator on the collection: the compiled filter, and the rows the backend
\* returns for it.
BuildIterator ==
    /\ fpc = "start"
    /\ compiled' = prepareWhereClause(filter)
    /\ IF compiled'.err # "nil"
       THEN fpc' = "failed" /\ rows' = rows
       ELSE fpc' = "queried" /\ rows' = Query(compiled'.where, compiled'.args, Collection)
    /\ UNCHANGED <<iterVars, filter, refiltered, concVars, queryVars>>

\* The caller re-applies the whole filter to the documents it got.
FilterDocuments ==
    /\ fpc = "queried"
    /\ refiltered' = {doc \in rows : FilterDocument(doc, filter)}
    /\ fpc' = "filtered"
    /\ UNCHANGED <<iterVars, filter, compiled, rows, concVars, queryVars>>

InitFilter ==
    /\ InitIter
    /\ filter \in Filters
    /\ compiled = NotCompiled
    /\ rows = {}
    /\ refiltered = {}
    /\ fpc = "start"
    /\ InitConc
    /\ InitQueryParams

StepFilter == BuildIterator \/ FilterDocuments

\* One filter document, compiled, run on the collection and re-applied.
SpecFilter == InitFilter /\ [][StepFilter]_vars

\* ------------------------------------------- properties of the filter compiler

\* The filter has been compiled, without an error.
Compiled == fpc \in {"queried", "filtered"}

HasDot(key) == \E i \in 1..Len(key) : key[i] = "."

\* The filter without its i-th entry.
Without(f, i) == SubSeq(f, 1, i - 1) \o SubSeq(f, i + 1, Len(f))

\* The i-th entry of the filter adds nothing to the compiled fragment: no predicate
\* is bound to its key, and the fragment is the one compiled without the entry.
NoContribution(i) ==
    /\ \A n \in 1..Len(compiled.where) : compiled.args[compiled.where[n].key] # filter[i][1]
    /\ prepareWhereClause(Without(filter, i)) = compiled

\* A subdocument without a $eq or $ne of a scalar.
NoScalarOperator(val) ==
    \A n \in 1..Len(val.v) : ~(val.v[n][1] \in {OpEq, OpNe} /\ val.v[n][2].t \in ScalarTypes)

\* C7, as claimed: a key that contains a dot, or whose value is a nested
\* document, array, binary, null, regex or timestamp, adds no predicate and no
\* arguments.
ConservativePushdownAsClaimed ==
    Compiled =>
       \A i \in 1..Len(filter) :
          (HasDot(filter[i][1]) \/ filter[i][2].t \in UnsupportedTypes) => NoContribution(i)

\* C7, amended: a key that parses as a path of more than one segment, or whose
\* value is an array, binary, null, regex or timestamp, or a nested document
\* without a $eq or $ne of a scalar, adds no predicate and no arguments.
ConservativePushdown ==
    Compiled =>
       \A i \in 1..Len(filter) :
          LET key == filter[i][1]
              val == filter[i][2]
              path == NewPathFromString(key)
          IN (\/ path.err = "nil" /\ path.len > 1
              \/ val.t \in UnsupportedTypes \ {"object"}
              \/ val.t = "object" /\ NoScalarOperator(val)) => NoContribution(i)

\* A compiled filter of a dotted key with a scalar and a plain key with a scalar:
\* the only predicate is the plain key's.
DottedKeyOmitted ==
    /\ Compiled
    /\ Len(filter) = 2
    /\ filter[1] = <<<<"v", ".", "w">>, Int32(42)>>
    /\ filter[2][1] = <<"w">>
    /\ filter[2][2] = String("42")
    /\ Len(compiled.where) = 1
    /\ compiled.args = <<<<"w">>, MarshalSingleValue(String("42"))>>

\* C8: the backend returns every stored document the filter matches, so the
\* filter re-applied to the returned rows gives the documents of the collection
\* that the filter matches.
PushdownSoundness ==
    /\ Compiled => \A doc \in Collection : FilterDocument(doc, filter) => doc \in rows
    /\ fpc = "filtered" => refiltered = {doc \in Collection : FilterDocument(doc, filter)}

\* The backend left documents out, and the filter in memory some more.
PartialPushdown ==
    /\ fpc = "filtered"
    /\ compiled.where # <<>>
    /\ rows # Collection
    /\ refiltered # rows
    /\ refiltered # {}

\* The documents the $ne predicate of a scalar under a key is to reject: the key
\* exists, its value contains the encoded scalar, and its type tag is the scalar's.
NeRejects(key, val) ==
    {doc \in Collection :
        /\ Has(doc, key)
        /\ JsonbContains(MarshalSingleValue(Get(doc, key)), MarshalSingleValue(val))
        /\ GetTypeOfValue(Get(doc, key)) = val.t}

FilterNe42 == <<<<<<"v">>, Document(<<<<OpNe, Int32(42)>>>>)>>>>

\* C9: the rows of a filter {key: {$ne: scalar}} that compiles to a predicate are
\* the collection without the documents whose key exists, contains the encoded
\* scalar and has the scalar's type tag; for {v: {$ne: 42}} these are the
\* documents with v: 42 of that integer type: {v: "42"} and the documents
\* without v are kept.
NeTypeSensitivity ==
    /\ (/\ Compiled
        /\ Len(filter) = 1
        /\ filter[1][2].t = "object"
        /\ Len(filter[1][2].v) = 1
        /\ filter[1][2].v[1][1] = OpNe
        /\ filter[1][2].v[1][2].t \in ScalarTypes
        /\ Len(compiled.where) = 1) =>
          rows = Collection \ NeRejects(filter[1][1], filter[1][2].v[1][2])
    /\ (Compiled /\ filter = FilterNe42) =>
          /\ Collection \ rows = {doc \in Collection : Has(doc, <<"v">>) /\ Get(doc, <<"v">>) = Int32(42)}
          /\ <<<<<<"v">>, Int32(42)>>>> \notin rows
          /\ <<<<<<"v">>, String("42")>>>> \in rows
          /\ <<>> \in rows

\* {v: {$ne: 42}} has been run: {v: 42} is left out, {v: "42"} is returned.
NeExample ==
    /\ fpc = "queried"
    /\ filter = FilterNe42
    /\ <<<<<<"v">>, Int32(42)>>>> \notin rows
    /\ <<<<<<"v">>, String("42")>>>> \in rows

\* The entries of the filter that are no directives and whose key fails to parse
\* with the given code.
PathErrors(code) ==
    {i \in 1..Len(filter) :
        ~HasPrefix(filter[i][1], "$") /\ NewPathFromString(filter[i][1]).err = code}

\* The predicates of the compiled fragment bound to the key of the i-th entry.
BoundTo(i) ==
    {n \in 1..Len(compiled.where) : compiled.args[compiled.where[n].key] = filter[i][1]}

\* The scalars a value is to be compared with: itself if it is a scalar, the
\* scalars of its $eq and $ne operators if it is a document.
PushedScalars(val) ==
    CASE val.t \in ScalarTypes -> {val}
      [] val.t = "object" ->
            {val.v[n][2] : n \in {k \in 1..Len(val.v) :
                                    val.v[k][1] \in {OpEq, OpNe} /\ val.v[k][2].t \in ScalarTypes}}
      [] OTHER -> {}

\* A path error other than "empty key" fails the whole compilation: the error
\* is returned, with an empty fragment and no arguments.
PathErrorPropagated ==
    /\ fpc = "failed" <=> (fpc # "start" /\ PathErrors(ErrDocumentPathOther) # {})
    /\ fpc = "failed" =>
          (compiled.where = <<>> /\ compiled.args = <<>> /\ compiled.err = ErrDocumentPathOther)

\* C14, as claimed: the entry of a key whose parsing fails with "empty key" adds
\* no predicate, no arguments and no error; a key whose parsing fails with
\* another error fails the compilation.
PathParseOutcomesAsClaimed ==
    /\ Compiled => \A i \in PathErrors(ErrDocumentPathEmptyKey) : NoContribution(i)
    /\ PathErrorPropagated

\* C14, amended: the "empty key" error of a key is ignored, not the entry: no
\* error is returned for it and the entry is compiled from its value as under a
\* key of one segment, a predicate bound to the key for each scalar the value
\* compares with; a key whose parsing fails with another error fails the
\* compilation.
PathParseOutcomes ==
    /\ Compiled =>
          \A i \in PathErrors(ErrDocumentPathEmptyKey) :
             /\ Cardinality(BoundTo(i)) = Cardinality(PushedScalars(filter[i][2]))
             /\ {compiled.args[compiled.where[n].arg] : n \in BoundTo(i)}
                   = {MarshalSingleValue(val) : val \in PushedScalars(filter[i][2])}
    /\ PathErrorPropagated

\* The filter {"v.": 42, w: "42"} has been compiled: two predicates, the first
\* bound to the key "v.".
EmptyKeyCompiled ==
    /\ Compiled
    /\ Len(filter) = 2
    /\ filter[1] = <<<<"v", ".">>, Int32(42)>>
    /\ filter[2] = <<<<"w">>, String("42")>>
    /\ Len(compiled.where) = 2
    /\ compiled.args[compiled.where[1].key] = <<"v", ".">>
    /\ compiled.err = "nil"

\* The entry of the filter the n-th predicate is bound to, and the place in the
\* entry's nested document of the operator it compares with (0 for a scalar).
EntryOf(n) == CHOOSE i \in 1..Len(filter) : filter[i][1] = compiled.args[2 * n - 1]
OperatorOf(n) ==
    LET val == filter[EntryOf(n)][2]
    IN IF val.t # "object"
       THEN 0
       ELSE CHOOSE j \in 1..Len(val.v) :
               /\ val.v[j][2].t \in ScalarTypes
               /\ MarshalSingleValue(val.v[j][2]) = compiled.args[2 * n]
               /\ val.v[j][1] = IF compiled.where[n].sql = "contains" THEN OpEq ELSE OpNe

\* C15: in a filter compiled without error the n-th predicate has the
\* placeholders 2n-1, for the field key, and 2n, for the encoded value, and
\* nothing else of the entry but the type tag of a $ne; there are two arguments
\* for each predicate, the key of an entry of the filter and the encoding of a
\* scalar of that entry, placeholder i being bound to argument i; and the
\* predicates follow the order of the entries and of their operators.
PlaceholderAlignment ==
    Compiled =>
       /\ Len(compiled.args) = 2 * Len(compiled.where)
       /\ \A n \in 1..Len(compiled.where) :
             /\ DOMAIN compiled.where[n] = {"sql", "key", "arg", "t"}
             /\ compiled.where[n].sql \in {"contains", "not_equal_typed"}
             /\ compiled.where[n].key = 2 * n - 1
             /\ compiled.where[n].arg = 2 * n
             /\ compiled.where[n].t \in ScalarTypes \cup {""}
             /\ \E i \in 1..Len(filter) :
                   /\ compiled.args[2 * n - 1] = filter[i][1]
                   /\ compiled.args[2 * n] \in
                         {MarshalSingleValue(val) : val \in PushedScalars(filter[i][2])}
       /\ \A n, k \in 1..Len(compiled.where) :
             n < k => \/ EntryOf(n) < EntryOf(k)
                      \/ EntryOf(n) = EntryOf(k) /\ OperatorOf(n) < OperatorOf(k)

\* The filter {v: {$ne: "42", $eq: 42}, w: 42} has been compiled: three
\* predicates with the placeholders 1 to 6 and six arguments.
ThreePredicates ==
    /\ Compiled
    /\ Len(filter) = 2
    /\ filter[1] = <<<<"v">>, Document(<<<<OpNe, String("42")>>, <<OpEq, Int32(42)>>>>)>>
    /\ filter[2] = <<<<"w">>, Int32(42)>>
    /\ Len(compiled.where) = 3
    /\ compiled.where[3].key = 5
    /\ compiled.where[3].arg = 6
    /\ compiled.args[5] = <<"w">>
    /\ Len(compiled.args) = 6

\* -------------------------------------------------------- concurrent callers

\* A mutex that never makes its caller wait.
UnlockedAlways(holder, op) == TRUE

\* A mutex that Next() takes as a reader: only Close() waits for it.
UnlockedForNext(holder, op) == op = "Next" \/ holder = 0

\* iter.m.Lock() returns once nobody holds the mutex, in Next() as in Close().
Unlocked(holder, op) == holder = 0

\* An actor is between the Lock() and the Unlock() of its call.
InBody(a) == pc[a] \in {"locked", "cursor", "unlock"}

\* An actor calls Next() or Close() on the iterator it holds a reference to.
Call ==
    /\ qres = "iter"
    /\ gc = "live"
    /\ \E a \in Actors, op \in {"Next", "Close"} :
          /\ pc[a] = "idle"
          /\ pc' = [pc EXCEPT ![a] = "lock"]
          /\ call' = [call EXCEPT ![a] = [Idle EXCEPT !.op = op]]
    /\ UNCHANGED <<iterVars, filterVars, m, lateOp, returned, gc, queryVars>>

\* iter.m.Lock(), the first line of Next and of Close.  The call notes whether a
\* Close() had returned before.
Lock ==
    /\ \E a \in Actors :
          /\ pc[a] = "lock"
          /\ Unlocked(m, call[a].op)
          /\ m' = a
          /\ pc' = [pc EXCEPT ![a] = "locked"]
          /\ call' = [call EXCEPT ![a].afterClose = hist.closed]
    /\ UNCHANGED <<iterVars, filterVars, lateOp, returned, gc, queryVars>>

\* Lines 98-104 of Next: the closed check and the context check.
NextChecks ==
    /\ \E a \in Actors :
          /\ pc[a] = "locked"
          /\ call[a].op = "Next"
          /\ CASE iter = NIL ->
                    /\ call' = [call EXCEPT ![a].res = ErrIteratorDone]
                    /\ pc' = [pc EXCEPT ![a] = "unlock"]
               [] iter # NIL /\ ctxErr # "nil" ->
                    /\ call' = [call EXCEPT ![a].res = ctxErr]
                    /\ pc' = [pc EXCEPT ![a] = "unlock"]
               [] OTHER ->
                    /\ call' = call
                    /\ pc' = [pc EXCEPT ![a] = "cursor"]
    /\ UNCHANGED <<iterVars, filterVars, m, lateOp, returned, gc, queryVars>>

\* Lines 106-144 of Next, on the cursor the check of line 98 found: the cursor
\* is advanced, and the record decoded or the iterator closed.
NextCursor ==
    /\ \E a \in Actors, adv \in DriverNext(cur, pos), reachable \in BOOLEAN :
          LET r == advance([It EXCEPT !.iter = CURSOR], adv, reachable)
          IN /\ pc[a] = "cursor"
             /\ Becomes(r)
             /\ lateOp' = (lateOp \/ cur = "closed")
             /\ call' = [call EXCEPT ![a].res = r.res, ![a].doc = r.doc]
             /\ pc' = [pc EXCEPT ![a] = "unlock"]
    /\ UNCHANGED <<qres, lookup, executed, authSchema, ctxErr, tick, last, hist, filterVars,
                   m, returned, gc, queryVars>>

\* Line 152 of Close: close() under the mutex.
CloseLocked ==
    /\ \E a \in Actors :
          /\ pc[a] = "locked"
          /\ call[a].op = "Close"
          /\ Becomes(close(It))
          /\ pc' = [pc EXCEPT ![a] = "unlock"]
    /\ UNCHANGED <<qres, lookup, executed, authSchema, ctxErr, tick, last, hist, filterVars,
                   m, call, lateOp, returned, gc, queryVars>>

\* The deferred iter.m.Unlock() and the return to the caller.
Unlock ==
    /\ \E a \in Actors :
          /\ pc[a] = "unlock"
          /\ m' = 0
          /\ pc' = [pc EXCEPT ![a] = "idle"]
          /\ call' = [call EXCEPT ![a] = Idle]
          /\ returned' = IF call[a].res = "doc" THEN Append(returned, call[a].doc) ELSE returned
          /\ hist' = [hist EXCEPT !.closed = @ \/ call[a].op = "Close",
                                  !.done = @ \/ call[a].res = ErrIteratorDone,
                                  !.fatal = @ \/ call[a].res = "fatal",
                                  !.docs = IF call[a].res = "doc" THEN @ + 1 ELSE @]
    /\ UNCHANGED <<qres, lookup, executed, iter, schema, registered, finalizer, cur, pos,
                   closeCount, nilCalls, authSchema, nRefresh, ctxErr, tick, last, filterVars,
                   lateOp, gc, queryVars>>

\* The garbage collector finds the iterator unreachable: no call is running and
\* the callers have dropped it.  An armed finalizer runs, and panics.
Finalize ==
    /\ qres = "iter"
    /\ gc = "live"
    /\ \A a \in Actors : pc[a] = "idle"
    /\ gc' = IF finalizer THEN "panic" ELSE "collected"
    /\ UNCHANGED <<iterVars, filterVars, m, pc, call, lateOp, returned, queryVars>>

StepConc ==
    \/ QueryDocuments
    \/ Call
    \/ Lock
    \/ NextChecks
    \/ NextCursor
    \/ CloseLocked
    \/ Unlock
    \/ Finalize
    \/ Cancel
    \/ SchemaDrift

\* One iterator and the actors that call it concurrently, statement by statement.
SpecConc == Init /\ [][StepConc]_vars

\* C11: under every interleaving of Next() and Close() calls of several actors
\* on one iterator at most one actor is inside a body, and it holds the mutex;
\* no method of the cursor is called after the cursor's Close(), which is called
\* at most once, and never on a nil cursor; a closed cursor is no longer held;
\* and a Next() that took the mutex after a Close() had returned reports
\* "iteration done".
ConcurrentSafety ==
    /\ \A a, b \in Actors : (a # b) => ~(InBody(a) /\ InBody(b))
    /\ \A a \in Actors : InBody(a) => m = a
    /\ ~lateOp
    /\ closeCount <= 1
    /\ nilCalls = 0
    /\ cur = "closed" => iter = NIL
    /\ \A a \in Actors :
          (pc[a] = "unlock" /\ call[a].op = "Next" /\ call[a].afterClose) =>
             call[a].res = ErrIteratorDone

\* An actor's Next() took the mutex after a Close() had returned, on an iterator
\* that had delivered a record, and reports "iteration done" while another actor
\* waits for the mutex in Close().
NextAfterConcurrentClose ==
    \E a, b \in Actors :
       /\ a # b
       /\ pc[a] = "unlock"
       /\ call[a].op = "Next"
       /\ call[a].afterClose
       /\ call[a].res = ErrIteratorDone
       /\ pc[b] = "lock"
       /\ call[b].op = "Close"
       /\ pos > 0
       /\ closeCount = 1

LeakDetection ==
    /\ (qres = "iter" /\ iter # NIL) => (registered /\ finalizer)
    /\ (qres = "iter" /\ lookup = "ok" /\ iter = NIL) => (~registered /\ ~finalizer)
    /\ (gc # "live" /\ iter # NIL) => gc = "panic"
    /\ gc = "panic" => (~hist.closed /\ (lookup = "ok" => iter # NIL /\ closeCount = 0))
    /\ gc = "collected" => (iter = NIL /\ ~finalizer)

\* The callers dropped an iterator after a fatal error of Next(), without
\* Close(): its collection panics.
LeakedAfterFatal ==
    /\ gc = "panic"
    /\ hist.fatal
    /\ iter = CURSOR
    /\ pos > 0

\* ------------------------------------------------------- Explain and the text

ErrTableNotExist == "ErrTableNotExist"

\* What the backend may answer to the EXPLAIN query: a plan, or one of the
\* failures Explain tells apart.
PlanOutcomes == {"plan", "no_rows", "scan_error", "json_error", "no_plans", "rows_error"}

\* explain going on without a table, as QueryDocuments does: the query is built
\* and run whether the collection exists or not.
explainWithoutTable(exists, found, built, txOk, plan) ==
    CASE exists = "error" -> "exists_error"
      [] exists # "error" /\ found = "other" -> "lookup_error"
      [] exists # "error" /\ found # "other" /\ built.err # "nil" -> "where_error"
      [] exists # "error" /\ found # "other" /\ built.err = "nil" /\ ~txOk -> "query_error"
      [] OTHER -> plan

\* The way Explain takes: the existence check, the table lookup, the compilation
\* of the filter, the query and the reading of the plan; every failure is
\* returned as an error, ErrTableNotExist for a collection that does not exist,
\* and the plan as a document.
explain(exists, found, built, txOk, plan) ==
    CASE exists = "error" -> "exists_error"
      [] exists = "no" -> ErrTableNotExist
      [] exists = "yes" /\ found = "notexist" -> ErrTableNotExist
      [] exists = "yes" /\ found = "other" -> "lookup_error"
      [] exists = "yes" /\ found = "ok" /\ built.err # "nil" -> "where_error"
      [] exists = "yes" /\ found = "ok" /\ built.err = "nil" /\ ~txOk -> "query_error"
      [] OTHER -> plan

\* The results of explain that come before tx.Query.
BeforeQuery == {"exists_error", ErrTableNotExist, "lookup_error", "where_error"}

\* Explain
Explain ==
    /\ ex = NotExplained
    /\ \E exists \in {"yes", "no", "error"}, found \in {"ok", "notexist", "other"},
          f \in QueryFilters, txOk \in BOOLEAN, plan \in PlanOutcomes :
          LET built == prepareWhereClause(f)
              way == explain(exists, found, built, txOk, plan)
          IN ex' = [exists |-> exists,
                    found |-> IF exists = "yes" THEN found ELSE "none",
                    res |-> way,
                    query |-> IF way \in BeforeQuery
                              THEN NoQuery
                              ELSE [text |-> selectFrom(qp), where |-> built.where,
                                    args |-> built.args],
                    executed |-> IF way \in BeforeQuery THEN 0 ELSE 1]
    /\ UNCHANGED <<iterVars, filterVars, concVars, qp, query>>

\* The comments: the two characters of the comment delimiters and another one.
CommentChars == {"/", "*", "x"}
Comments == UNION {[1..n -> CommentChars] : n \in 0..MaxCommentLen}

InitQuery ==
    /\ InitIter
    /\ filter = <<>>
    /\ compiled = NotCompiled
    /\ rows = {}
    /\ refiltered = {}
    /\ fpc = "start"
    /\ InitConc
    /\ qp \in [Comment : Comments, Explain : BOOLEAN]
    /\ query = NoQuery
    /\ ex = NotExplained

StepQuery == QueryDocuments \/ Explain

\* One set of query parameters, handed to QueryDocuments and to Explain.
SpecQuery == InitQuery /\ [][StepQuery]_vars

\* Where the two characters of a delimiter follow each other in a text.
Occurs(text, first, second) ==
    {i \in 1..(Len(text) - 1) : text[i] = first /\ text[i + 1] = second}

\* The text has no comment block for an empty comment; for any other comment it
\* has one comment opener, right after the projection, and one comment
\* terminator, right before FROM, so that the comment between them holds neither.
Sanitized(text) ==
    IF qp.Comment = <<>>
    THEN \A i \in 1..Len(text) : text[i] \notin {"/", "*"}
    ELSE LET openers == Occurs(text, "/", "*")
             closers == Occurs(text, "*", "/")
         IN /\ Cardinality(openers) = 1
            /\ Cardinality(closers) = 1
            /\ \A i \in openers, j \in closers :
                  /\ i > 1
                  /\ text[i - 1] = "SELECT _jsonb "
                  /\ text[i + 2] = " "
                  /\ i + 2 < j - 1
                  /\ text[j - 1] = " "
                  /\ text[j + 2] = " "
                  /\ text[j + 3] = " FROM "

\* C12: the query text of buildIterator and that of Explain hold, for a
\* non-empty comment, one comment block whose text has neither "*/" nor "/*",
\* and for an empty comment no comment block.
CommentSanitization ==
    /\ query # NoQuery => Sanitized(query.text)
    /\ ex.query # NoQuery => Sanitized(ex.query.text)

\* The comment "*/*" in both queries: "/*" became "/ *", then "*/" became "* /".
CommentEscaped ==
    /\ qp = [Comment |-> <<"*", "/", "*">>, Explain |-> FALSE]
    /\ query.text = <<"SELECT _jsonb ", "/", "*", " ", "*", " ", "/", " ", "*", " ", "*", "/", " ",
                      " FROM ", "\"db\".\"table\"">>
    /\ ex.query.text = query.text

\* C20: for a collection that does not exist Explain returns ErrTableNotExist
\* and no document, and neither builds a query nor runs one on the transaction;
\* QueryDocuments returns for it no error but an iterator without a cursor, and
\* runs no query either.
ExplainMissingCollection ==
    /\ (ex.exists = "no" \/ ex.found = "notexist") =>
          /\ ex.res = ErrTableNotExist
          /\ ex.query = NoQuery
          /\ ex.executed = 0
    /\ ex.res = "plan" => (ex.exists = "yes" /\ ex.found = "ok" /\ ex.executed = 1)
    /\ lookup = "notexist" =>
          /\ qres = "iter"
          /\ iter = NIL
          /\ query = NoQuery
          /\ executed = 0

\* Explain and QueryDocuments have both been called, with a comment, for a
\* collection that does not exist: an error from the first, an iterator from
\* the second, and no query.
BothOnMissingCollection ==
    /\ ex.exists = "no"
    /\ ex.res = ErrTableNotExist
    /\ lookup = "notexist"
    /\ qres = "iter"
    /\ qp.Comment # <<>>
    /\ qp.Explain

====
